---------------------------- MODULE Spec2Model ----------------------------
(***************************************************************************)
(* A model of MITWake/REWS.py: the three rotor samplers Point, Line and    *)
(* Area, each with grid_points and integrate.                              *)
(*                                                                         *)
(* Numbers.  The code computes in IEEE doubles; the model computes in      *)
(* exact arithmetic over the reals of the form (a + b*sqrt(3))/d * pi^p,   *)
(* which holds every value the code produces from rational inputs when the *)
(* angles are multiples of pi/6.  Rounding is not modelled.                *)
(*                                                                         *)
(* Arrays.  A numpy array is a view [buf, shape] of a flat buffer of the   *)
(* heap (C order); np.zeros and arithmetic allocate a buffer, and          *)
(* np.expand_dims / np.squeeze return a view of their argument's buffer.   *)
(***************************************************************************)
EXTENDS Integers, Sequences, FiniteSets, TLC

(***************************************************************************)
(* Exact numbers                                                           *)
(***************************************************************************)
Abs(n) == IF n < 0 THEN -n ELSE n

RECURSIVE GCD(_, _)
GCD(m, n) == IF n = 0 THEN m ELSE GCD(n, m % n)

\* (a + b*sqrt(3))/d * pi^p in lowest terms, d > 0; zero has p = 0.
Num(a, b, d, p) ==
    IF a = 0 /\ b = 0 THEN [a |-> 0, b |-> 0, d |-> 1, p |-> 0]
    ELSE LET s == IF d < 0 THEN -1 ELSE 1
             g == GCD(GCD(Abs(a), Abs(b)), Abs(d))
         IN  [a |-> (s * a) \div g, b |-> (s * b) \div g,
              d |-> Abs(d) \div g, p |-> p]

Rat(n, d) == Num(n, 0, d, 0)
I(n) == Num(n, 0, 1, 0)
Zero == I(0)
IsZero(x) == x.a = 0 /\ x.b = 0

\* np.pi
Pi == Num(1, 0, 1, 1)

\* x + y; a sum of two nonzero numbers with different powers of pi is not
\* of the modelled form and has no value here (the code never forms one).
Add(x, y) ==
    CASE IsZero(x) -> y
      [] IsZero(y) -> x
      [] ~IsZero(x) /\ ~IsZero(y) /\ x.p = y.p ->
            Num(x.a * y.d + y.a * x.d, x.b * y.d + y.b * x.d, x.d * y.d, x.p)

Neg(x) == Num(-x.a, -x.b, x.d, x.p)
Sub(x, y) == Add(x, Neg(y))

Mul(x, y) ==
    Num(x.a * y.a + 3 * x.b * y.b, x.a * y.b + x.b * y.a, x.d * y.d, x.p + y.p)

\* x / y for y a nonzero rational multiple of a power of pi
Div(x, y) ==
    CASE y.b = 0 /\ y.a # 0 -> Mul(x, Num(y.d, 0, y.a, -y.p))

\* np.sin of a rational multiple q*pi of pi with 6q an integer
SinTable(m) ==
    CASE m \in {0, 6}  -> Zero
      [] m \in {1, 5}  -> Rat(1, 2)
      [] m \in {2, 4}  -> Num(0, 1, 2, 0)
      [] m = 3         -> I(1)
      [] m \in {7, 11} -> Rat(-1, 2)
      [] m \in {8, 10} -> Num(0, -1, 2, 0)
      [] m = 9         -> I(-1)

AngleIndex(t) ==
    CASE IsZero(t) -> 0
      [] ~IsZero(t) /\ t.b = 0 /\ t.p = 1 /\ (6 * t.a) % t.d = 0 ->
            ((6 * t.a) \div t.d) % 12

Sin(t) == SinTable(AngleIndex(t))
Cos(t) == SinTable((AngleIndex(t) + 3) % 12)

(***************************************************************************)
(* numpy on flat sequences                                                 *)
(***************************************************************************)
\* a sequence given element by element, its elements computed once and stored
array(f) == f \o <<>>

RECURSIVE SeqSum(_)
SeqSum(s) == IF s = <<>> THEN Zero ELSE Add(Head(s), SeqSum(Tail(s)))

RECURSIVE Prod(_)
Prod(shape) == IF shape = <<>> THEN 1 ELSE Head(shape) * Prod(Tail(shape))

\* linspace with the end point left out (endpoint=False): num steps
linspace_open(start, stop, num) ==
    [j \in 1..num |-> Add(Mul(I(j - 1), Div(Sub(stop, start), I(num))), start)]

\* np.linspace(start, stop, num) for num >= 0 (endpoint=True): num - 1 equal
\* steps, the last sample set to stop; a single sample is start.
linspace(start, stop, num) ==
    LET div == num - 1
        delta == Sub(stop, start)
        step == IF div > 0 THEN Div(delta, I(div)) ELSE delta
    IN  array([j \in 1..num |->
                  IF num > 1 /\ j = num THEN stop
                  ELSE Add(Mul(I(j - 1), step), start)])

\* np.diff(x): one element fewer than x, none for an empty x
diff(x) ==
    array([j \in 1..(IF Len(x) > 0 THEN Len(x) - 1 ELSE 0) |->
              Sub(x[j + 1], x[j])])

\* the left rectangle rule in place of the trapezoidal rule
trapz_left(y, x) ==
    LET d == diff(x)
    IN  SeqSum([j \in 1..Len(d) |-> Mul(d[j], y[j])])

\* np.trapz(y, x) along one axis: sum(d * (y[1:] + y[:-1]) / 2.0), d = diff(x)
trapz(y, x) ==
    LET d == diff(x)
    IN  SeqSum([j \in 1..Len(d) |->
                   Div(Mul(d[j], Add(y[j + 1], y[j])), I(2))])


(***************************************************************************)
(* Heap and arrays                                                         *)
(***************************************************************************)
\* An array is a view of a heap buffer; Z = 0 is the Python scalar, which
\* has no buffer.
Arr(buf, shape) == [buf |-> buf, shape |-> shape]
ScalarZero == Arr(0, <<>>)
NoArr == Arr(-1, <<>>)
IsArray(r) == r.buf > 0

\* the buffer a new allocation gets
NewBuf(heap) == Len(heap) + 1

\* np.zeros(shape)
zeros(shape) == array([n \in 1..Prod(shape) |-> Zero])

\* what a caller reads through a view: its shape and its elements in C order
Val(heap, r) ==
    [shape |-> r.shape, data |-> IF IsArray(r) THEN heap[r.buf] ELSE <<Zero>>]

\* A[i, ...] = block: turbine i's block of the buffer overwritten
SetBlock(data, i, block) ==
    LET bs == Len(block)
    IN  array([n \in 1..Len(data) |->
                  IF (i - 1) * bs < n /\ n <= i * bs THEN block[n - (i - 1) * bs]
                  ELSE data[n]])

\* A[i, ...] of an array whose trailing dimensions hold bs elements
Block(data, i, bs) == array([n \in 1..bs |-> data[(i - 1) * bs + n]])

(***************************************************************************)
(* Sampler instances and call frames                                       *)
(***************************************************************************)
NoSelf ==
    [kind |-> "none", disc |-> 0, r_disc |-> 0, theta_disc |-> 0,
     ys |-> NoArr, thetas |-> NoArr, r_mesh |-> NoArr, theta_mesh |-> NoArr]

\* a constructor that raised returns no instance
Raised == [NoSelf EXCEPT !.kind = "raised"]

\* A call in progress: its arguments (X_t, Y_t or U), its locals (X, Y, Z,
\* the loop index i) and its result (X, Y, Z or R).
NoFrame ==
    [pc |-> "idle", op |-> "none", X_t |-> NoArr, Y_t |-> NoArr, U |-> NoArr,
     X |-> NoArr, Y |-> NoArr, Z |-> NoArr, R |-> NoArr, i |-> 0]

State(heap, self, f) == [heap |-> heap, self |-> self, f |-> f]

\* class Point has no __init__
Point_init(heap) == [heap |-> heap, self |-> [NoSelf EXCEPT !.kind = "Point"]]

\* Line.__init__(disc): np.linspace raises ValueError for a negative count
Line_init(heap, disc) ==
    IF disc < 0 THEN [heap |-> heap, self |-> Raised]
    ELSE [heap |-> Append(heap, linspace(Rat(-1, 2), Rat(1, 2), disc)),
          self |-> [NoSelf EXCEPT !.kind = "Line", !.disc = disc,
                                  !.ys = Arr(NewBuf(heap), <<disc>>)]]

\* np.meshgrid(rs, thetas): both of shape (len(thetas), len(rs)), copies
meshgrid_x(rs, thetas) ==
    array([n \in 1..(Len(thetas) * Len(rs)) |-> rs[((n - 1) % Len(rs)) + 1]])

meshgrid_y(rs, thetas) ==
    array([n \in 1..(Len(thetas) * Len(rs)) |->
              thetas[((n - 1) \div Len(rs)) + 1]])

\* Area.__init__(r_disc, theta_disc)
Area_init(heap, r_disc, theta_disc) ==
    IF r_disc < 0 \/ theta_disc < 0 THEN [heap |-> heap, self |-> Raised]
    ELSE LET rs == linspace(Zero, Rat(1, 2), r_disc)
             thetas == linspace(Zero, Mul(I(2), Pi), theta_disc)
             b == NewBuf(heap)
         IN  [heap |-> heap \o <<thetas, meshgrid_x(rs, thetas),
                                 meshgrid_y(rs, thetas)>>,
              self |-> [NoSelf EXCEPT
                  !.kind = "Area", !.r_disc = r_disc, !.theta_disc = theta_disc,
                  !.thetas = Arr(b, <<theta_disc>>),
                  !.r_mesh = Arr(b + 1, <<theta_disc, r_disc>>),
                  !.theta_mesh = Arr(b + 2, <<theta_disc, r_disc>>)]]

(***************************************************************************)
(* Point                                                                   *)
(***************************************************************************)
\* np.expand_dims(a, 1) of a 1-d array: a view of a with shape (N, 1)
expand_dims(a) == Arr(a.buf, <<a.shape[1], 1>>)

\* np.squeeze(a, -1): a view of a without its last axis
squeeze(a) == Arr(a.buf, SubSeq(a.shape, 1, Len(a.shape) - 1))

\* Point.grid_points: one statement
Point_grid_points(heap, self, f) ==
    State(heap, self,
          [f EXCEPT !.X = expand_dims(f.X_t), !.Y = expand_dims(f.Y_t),
                    !.Z = ScalarZero, !.pc = "done"])

Point_integrate(heap, self, f) ==
    State(heap, self, [f EXCEPT !.R = squeeze(f.U), !.pc = "done"])

(***************************************************************************)
(* Line                                                                    *)
(***************************************************************************)
\* Line.grid_points up to the loop: N_turb = len(X_t) and the two np.zeros
Line_grid_points_alloc(heap, self, f) ==
    LET N_turb == f.X_t.shape[1]
        b == NewBuf(heap)
    IN  State(heap \o <<zeros(<<N_turb, self.disc>>),
                        zeros(<<N_turb, self.disc>>)>>,
              self,
              [f EXCEPT !.X = Arr(b, <<N_turb, self.disc>>),
                        !.Y = Arr(b + 1, <<N_turb, self.disc>>),
                        !.i = 1, !.pc = "loop"])

\* the loop body shifting self.ys in place (self.ys += y_t; Y[i, :] = self.ys)
Line_grid_points_iter_inplace(heap, self, f) ==
    LET x_t == heap[f.X_t.buf][f.i]
        y_t == heap[f.Y_t.buf][f.i]
        ys == [j \in 1..self.disc |-> Add(heap[self.ys.buf][j], y_t)]
    IN  State([heap EXCEPT
                  ![self.ys.buf] = ys,
                  ![f.X.buf] = SetBlock(@, f.i, [j \in 1..self.disc |-> x_t]),
                  ![f.Y.buf] = SetBlock(@, f.i, ys)],
              self,
              [f EXCEPT !.i = f.i + 1])

\* the loop body without the turbine's lateral position (Y[i, :] = self.ys)
Line_grid_points_iter_unshifted(heap, self, f) ==
    LET x_t == heap[f.X_t.buf][f.i]
        ys == heap[self.ys.buf]
    IN  State([heap EXCEPT
                  ![f.X.buf] = SetBlock(@, f.i, [j \in 1..self.disc |-> x_t]),
                  ![f.Y.buf] = SetBlock(@, f.i, ys)],
              self,
              [f EXCEPT !.i = f.i + 1])

\* one iteration of the loop over zip(X_t, Y_t)
Line_grid_points_iter(heap, self, f) ==
    LET x_t == heap[f.X_t.buf][f.i]
        y_t == heap[f.Y_t.buf][f.i]
        ys == heap[self.ys.buf]
    IN  State([heap EXCEPT
                  ![f.X.buf] = SetBlock(@, f.i, [j \in 1..self.disc |-> x_t]),
                  ![f.Y.buf] = SetBlock(@, f.i,
                                        [j \in 1..self.disc |-> Add(ys[j], y_t)])],
              self,
              [f EXCEPT !.i = f.i + 1])

\* return X, Y, 0
Line_grid_points_return(heap, self, f) ==
    State(heap, self, [f EXCEPT !.Z = ScalarZero, !.pc = "done"])

\* np.trapz(U, self.ys, axis=-1)
Line_integrate(heap, self, f) ==
    LET N == f.U.shape[1]
        U == heap[f.U.buf]
        ys == heap[self.ys.buf]
    IN  State(Append(heap,
                     array([i \in 1..N |-> trapz(Block(U, i, self.disc), ys)])),
              self,
              [f EXCEPT !.R = Arr(NewBuf(heap), <<N>>), !.pc = "done"])

(***************************************************************************)
(* Area                                                                    *)
(***************************************************************************)
\* the arrays allocated with the two grid axes swapped
Area_grid_points_alloc_swapped(heap, self, f) ==
    LET N_turb == f.X_t.shape[1]
        shape == <<N_turb, self.r_disc, self.theta_disc>>
        b == NewBuf(heap)
    IN  State(heap \o <<zeros(shape), zeros(shape), zeros(shape)>>,
              self,
              [f EXCEPT !.X = Arr(b, shape), !.Y = Arr(b + 1, shape),
                        !.Z = Arr(b + 2, shape), !.i = 1, !.pc = "loop"])

\* Area.grid_points up to the loop: N_turb = len(X_t) and the three np.zeros
Area_grid_points_alloc(heap, self, f) ==
    LET N_turb == f.X_t.shape[1]
        shape == <<N_turb, self.theta_disc, self.r_disc>>
        b == NewBuf(heap)
    IN  State(heap \o <<zeros(shape), zeros(shape), zeros(shape)>>,
              self,
              [f EXCEPT !.X = Arr(b, shape), !.Y = Arr(b + 1, shape),
                        !.Z = Arr(b + 2, shape), !.i = 1, !.pc = "loop"])

\* one iteration of the loop over zip(X_t, Y_t)
Area_grid_points_iter(heap, self, f) ==
    LET x_t == heap[f.X_t.buf][f.i]
        y_t == heap[f.Y_t.buf][f.i]
        r_mesh == heap[self.r_mesh.buf]
        theta_mesh == heap[self.theta_mesh.buf]
        bs == self.theta_disc * self.r_disc
    IN  State([heap EXCEPT
                  ![f.X.buf] = SetBlock(@, f.i, [n \in 1..bs |-> x_t]),
                  ![f.Y.buf] = SetBlock(@, f.i,
                      [n \in 1..bs |->
                          Add(Mul(r_mesh[n], Sin(theta_mesh[n])), y_t)]),
                  ![f.Z.buf] = SetBlock(@, f.i,
                      [n \in 1..bs |-> Mul(r_mesh[n], Cos(theta_mesh[n]))])],
              self,
              [f EXCEPT !.i = f.i + 1])

\* return X, Y, Z
Area_grid_points_return(heap, self, f) ==
    State(heap, self, [f EXCEPT !.pc = "done"])

\* the radial weight left out
r_mesh_times_unweighted(r_mesh, U) == U

\* self.r_mesh * U for one turbine's samples
r_mesh_times(r_mesh, U) == array([n \in 1..Len(U) |-> Mul(r_mesh[n], U[n])])

\* the disk's area taken as pi (radius 1) in place of pi/4 (radius 0.5)
one_over_pi == Div(I(1), Pi)

\* 4 / np.pi
four_over_pi == Div(I(4), Pi)

\* 4 / np.pi * np.trapz(np.trapz(self.r_mesh * U, self.r_mesh, axis=-1),
\*                      self.thetas, axis=-1)
Area_integrate(heap, self, f) ==
    LET N == f.U.shape[1]
        U == heap[f.U.buf]
        r_mesh == heap[self.r_mesh.buf]
        thetas == heap[self.thetas.buf]
        T == self.theta_disc
        R == self.r_disc
        rU(i) == r_mesh_times(r_mesh, Block(U, i, T * R))
        inner(i) ==
            array([k \in 1..T |->
                      trapz(Block(rU(i), k, R), Block(r_mesh, k, R))])
    IN  State(Append(heap,
                     array([i \in 1..N |->
                               Mul(four_over_pi, trapz(inner(i), thetas))])),
              self,
              [f EXCEPT !.R = Arr(NewBuf(heap), <<N>>), !.pc = "done"])

(***************************************************************************)
(* Calls: dispatch on the instance's class, and a call run to its return   *)
(***************************************************************************)
\* len(zip(X_t, Y_t))
ZipLen(f) ==
    IF f.X_t.shape[1] < f.Y_t.shape[1] THEN f.X_t.shape[1] ELSE f.Y_t.shape[1]

\* sampler.grid_points(X_t, Y_t) up to its first loop iteration
grid_points_enter(heap, self, f) ==
    CASE self.kind = "Point" -> Point_grid_points(heap, self, f)
      [] self.kind = "Line"  -> Line_grid_points_alloc(heap, self, f)
      [] self.kind = "Area"  -> Area_grid_points_alloc(heap, self, f)

\* the loop's next iteration, or the return after the last one
grid_points_step(heap, self, f) ==
    CASE self.kind = "Line" /\ f.i <= ZipLen(f) -> Line_grid_points_iter(heap, self, f)
      [] self.kind = "Line" /\ f.i > ZipLen(f)  -> Line_grid_points_return(heap, self, f)
      [] self.kind = "Area" /\ f.i <= ZipLen(f) -> Area_grid_points_iter(heap, self, f)
      [] self.kind = "Area" /\ f.i > ZipLen(f)  -> Area_grid_points_return(heap, self, f)

\* sampler.integrate(U)
integrate(heap, self, f) ==
    CASE self.kind = "Point" -> Point_integrate(heap, self, f)
      [] self.kind = "Line"  -> Line_integrate(heap, self, f)
      [] self.kind = "Area"  -> Area_integrate(heap, self, f)

RECURSIVE RunLoop(_)
RunLoop(st) ==
    IF st.f.pc = "done" THEN st
    ELSE RunLoop(grid_points_step(st.heap, st.self, st.f))

\* The caller's arrays X_t, Y_t (elements xs, ys) put on the heap and
\* grid_points called on them and run to its return.
CallGridPoints(heap, self, xs, ys) ==
    LET b == NewBuf(heap)
        f == [NoFrame EXCEPT !.op = "grid_points",
                             !.X_t = Arr(b, <<Len(xs)>>),
                             !.Y_t = Arr(b + 1, <<Len(ys)>>)]
    IN  RunLoop(grid_points_enter(heap \o <<xs, ys>>, self, f))

\* The caller's array U (of the given shape) put on the heap and integrate
\* called on it.
CallIntegrate(heap, self, shape, data) ==
    LET f == [NoFrame EXCEPT !.op = "integrate", !.U = Arr(NewBuf(heap), shape)]
    IN  integrate(Append(heap, data), self, f)

(***************************************************************************)
(* Bounds and inputs                                                       *)
(***************************************************************************)
MaxTurb == 2
MaxDisc == 5
MaxRDisc == 3
MaxThetaDisc == 4
ConcDisc == 2

\* turbine coordinates and the translations applied to a layout
XCoords == {I(0), I(100)}
YCoords == {I(0), I(1)}
Shifts == {<<I(0), I(0)>>, <<I(3), I(0)>>, <<I(0), I(2)>>, <<I(3), I(2)>>}

\* sampled wind speeds
UVals == {I(8), I(9), I(10)}
AreaVals == {I(0), I(5)}

\* constructor calls: Point(), Line(disc), Area(r_disc, theta_disc)
CtorArgs ==
    {[kind |-> "Point", disc |-> 0, r_disc |-> 0, theta_disc |-> 0]}
    \cup {[kind |-> "Line", disc |-> d, r_disc |-> 0, theta_disc |-> 0] :
              d \in -1..MaxDisc}
    \cup {[kind |-> "Area", disc |-> 0, r_disc |-> r, theta_disc |-> t] :
              r \in -1..MaxRDisc, t \in -1..MaxThetaDisc}

\* the samplers the concurrent callers share
ConcCtorArgs ==
    {c \in CtorArgs : c.disc <= ConcDisc /\ c.r_disc <= ConcDisc
                      /\ c.theta_disc <= ConcDisc}

Construct(c) ==
    CASE c.kind = "Point" -> Point_init(<<>>)
      [] c.kind = "Line"  -> Line_init(<<>>, c.disc)
      [] c.kind = "Area"  -> Area_init(<<>>, c.r_disc, c.theta_disc)

\* turbine layouts: X_t and Y_t of equal length
Layouts ==
    UNION {[1..N -> XCoords] \X [1..N -> YCoords] : N \in 0..MaxTurb}

Translate(xs, d) == array([i \in 1..Len(xs) |-> Add(xs[i], d)])

\* the layouts of the concurrent callers: every turbine at x = 100
ConcLayouts ==
    UNION {{<<array([i \in 1..N |-> I(100)]), ys>> : ys \in [1..N -> YCoords]} :
              N \in 0..MaxTurb}

\* the shape of one turbine's samples
Trailing(self) ==
    CASE self.kind = "Point" -> <<1>>
      [] self.kind = "Line"  -> <<self.disc>>
      [] self.kind = "Area"  -> <<self.theta_disc, self.r_disc>>

\* One turbine's samples: for Point and Line every profile over UVals, for
\* Area a uniform field over AreaVals changed at up to two cells.
Profiles(self) ==
    LET bs == Prod(Trailing(self))
    IN  IF self.kind = "Area"
        THEN UNION {{[n \in 1..bs |-> IF n = p \/ n = q THEN v ELSE c] :
                        q \in p..bs, c \in AreaVals, v \in AreaVals} :
                    p \in 0..bs}
        ELSE [1..bs -> UVals]

Uniform(self, c) == [n \in 1..Prod(Trailing(self)) |-> c]

RECURSIVE Flatten(_)
Flatten(rows) == IF rows = <<>> THEN <<>> ELSE Head(rows) \o Flatten(Tail(rows))

\* Sampled fields U of shape (N,) + Trailing: any profile for the first
\* turbine, a uniform one for each of the others.
Fields(self) ==
    LET vals == IF self.kind = "Area" THEN AreaVals ELSE UVals
    IN  UNION {
          {[shape |-> <<N>> \o Trailing(self),
            data |-> Flatten([i \in 1..N |->
                         IF i = 1 THEN p ELSE Uniform(self, cs[i])])] :
               p \in Profiles(self), cs \in [1..N -> vals]} :
          N \in 0..MaxTurb}

\* the fields of the concurrent callers: the uniform ones
ConcFields(self) ==
    {[shape |-> <<N>> \o Trailing(self),
      data |-> array([n \in 1..(N * Prod(Trailing(self))) |-> c])] :
         N \in 0..MaxTurb, c \in IF self.kind = "Area" THEN AreaVals ELSE UVals}

(***************************************************************************)
(* State                                                                   *)
(***************************************************************************)
VARIABLES
    heap,   \* the buffers of the live arrays
    self,   \* the sampler instance
    ctor,   \* the constructor call that made it
    last,   \* the caller's latest pair of calls: arguments and results read
    fr,     \* concurrent callers: each one's call frame
    cl      \* concurrent callers: what each passed, whether it wrote, and
            \* whether its call ran interleaved with another

vars == <<heap, self, ctor, last, fr, cl>>

Callers == {1, 2}

NoVal == [shape |-> <<>>, data |-> <<>>]

NoCall ==
    [op |-> "none", X_t |-> <<>>, Y_t |-> <<>>, dx |-> Zero, dy |-> Zero,
     U |-> NoVal, X1 |-> NoVal, Y1 |-> NoVal, Z1 |-> NoVal,
     X2 |-> NoVal, Y2 |-> NoVal, Z2 |-> NoVal, R1 |-> NoVal, R2 |-> NoVal]

\* mixed: a step of the caller's call ran while another caller's call was
\* inside its loop
NoCl == [xs |-> <<>>, ys |-> <<>>, U |-> NoVal, wrote |-> FALSE, mixed |-> FALSE]

InitWith(args) ==
    /\ ctor \in args
    /\ heap = Construct(ctor).heap
    /\ self = Construct(ctor).self
    /\ last = NoCall
    /\ fr = [c \in Callers |-> NoFrame]
    /\ cl = [c \in Callers |-> NoCl]

Init == InitWith(CtorArgs)

Live == self.kind \in {"Point", "Line", "Area"}

(***************************************************************************)
(* One caller: calls made one after the other                              *)
(***************************************************************************)
\* grid_points on a layout and then on the layout translated by (dx, dy);
\* the caller reads both results after the second call and drops them.
GridPointsCalls(xs, ys, dx, dy) ==
    /\ Live
    /\ last.op = "none"
    /\ \E s1 \in {CallGridPoints(heap, self, xs, ys)} :
       \E s2 \in {CallGridPoints(s1.heap, s1.self,
                                 Translate(xs, dx), Translate(ys, dy))} :
           /\ last' = [NoCall EXCEPT
                  !.op = "grid_points", !.X_t = xs, !.Y_t = ys,
                  !.dx = dx, !.dy = dy,
                  !.X1 = Val(s2.heap, s1.f.X), !.Y1 = Val(s2.heap, s1.f.Y),
                  !.Z1 = Val(s2.heap, s1.f.Z),
                  !.X2 = Val(s2.heap, s2.f.X), !.Y2 = Val(s2.heap, s2.f.Y),
                  !.Z2 = Val(s2.heap, s2.f.Z)]
           /\ heap' = SubSeq(s2.heap, 1, Len(heap))
           /\ self' = s2.self
    /\ UNCHANGED <<ctor, fr, cl>>

\* integrate on a sampled field, twice
IntegrateCalls(U) ==
    /\ Live
    /\ last.op = "none"
    /\ \E s1 \in {CallIntegrate(heap, self, U.shape, U.data)} :
       \E s2 \in {CallIntegrate(s1.heap, s1.self, U.shape, U.data)} :
           /\ last' = [NoCall EXCEPT
                  !.op = "integrate", !.U = U,
                  !.R1 = Val(s2.heap, s1.f.R), !.R2 = Val(s2.heap, s2.f.R)]
           /\ heap' = SubSeq(s2.heap, 1, Len(heap))
           /\ self' = s2.self
    /\ UNCHANGED <<ctor, fr, cl>>

\* the caller is done with the results it read, and may call again
Forget ==
    /\ last.op # "none"
    /\ last' = NoCall
    /\ UNCHANGED <<heap, self, ctor, fr, cl>>

Next ==
    \/ Live /\ last.op = "none"
          /\ \E l \in Layouts, d \in Shifts : GridPointsCalls(l[1], l[2], d[1], d[2])
    \/ Live /\ last.op = "none" /\ \E U \in Fields(self) : IntegrateCalls(U)
    \/ Forget

Spec == Init /\ [][Next]_vars

(***************************************************************************)
(* Concurrent callers: calls on the one instance interleaved at the        *)
(* iterations of the per-turbine loop                                      *)
(***************************************************************************)
\* Callers are interchangeable: the one that calls first is caller 1.
MayCall(c) == fr[c].pc = "idle" /\ \A b \in Callers : b < c => fr[b].pc # "idle"

\* caller c passes its arrays X_t, Y_t to grid_points, which runs up to its
\* first loop iteration (Point: to its return)
CGridPoints(c, xs, ys) ==
    /\ Live
    /\ MayCall(c)
    /\ \E st \in {grid_points_enter(heap \o <<xs, ys>>, self,
                        [NoFrame EXCEPT !.op = "grid_points",
                             !.X_t = Arr(NewBuf(heap), <<Len(xs)>>),
                             !.Y_t = Arr(NewBuf(heap) + 1, <<Len(ys)>>)])} :
           /\ heap' = st.heap
           /\ self' = st.self
           /\ fr' = [fr EXCEPT ![c] = st.f]
    /\ cl' = [cl EXCEPT ![c] = [NoCl EXCEPT !.xs = xs, !.ys = ys]]
    /\ UNCHANGED <<ctor, last>>

\* one loop iteration of caller c's grid_points, or its return
CStep(c) ==
    /\ fr[c].pc = "loop"
    /\ \E st \in {grid_points_step(heap, self, fr[c])} :
           /\ heap' = st.heap
           /\ self' = st.self
           /\ fr' = [fr EXCEPT ![c] = st.f]
    /\ cl' = [cl EXCEPT ![c].mixed = @ \/ \E b \in Callers \ {c} : fr[b].pc = "loop"]
    /\ UNCHANGED <<ctor, last>>

\* caller c passes its array U to integrate: one numpy expression
CIntegrate(c, U) ==
    /\ Live
    /\ MayCall(c)
    /\ \E st \in {CallIntegrate(heap, self, U.shape, U.data)} :
           /\ heap' = st.heap
           /\ self' = st.self
           /\ fr' = [fr EXCEPT ![c] = st.f]
    /\ cl' = [cl EXCEPT ![c] = [NoCl EXCEPT !.U = U]]
    /\ UNCHANGED <<ctor, last>>

\* A.flat[0] = v through the view A
setitem(h, A, v) == [h EXCEPT ![A.buf][1] = v]

\* caller c writes once to the first element of an array grid_points
\* returned to it
CWrite(c, A) ==
    /\ fr[c].pc = "done"
    /\ fr[c].op = "grid_points"
    /\ ~cl[c].wrote
    /\ IsArray(A)
    /\ Prod(A.shape) > 0
    /\ heap' = setitem(heap, A, I(-1))
    /\ cl' = [cl EXCEPT ![c].wrote = TRUE]
    /\ UNCHANGED <<self, ctor, last, fr>>

NextConc ==
    \/ \E c \in Callers :
          MayCall(c) /\ \E l \in ConcLayouts : CGridPoints(c, l[1], l[2])
    \/ \E c \in Callers : CStep(c)
    \/ \E c \in Callers :
          Live /\ MayCall(c) /\ \E U \in ConcFields(self) : CIntegrate(c, U)
    \/ \E c \in Callers : \E A \in {fr[c].X, fr[c].Y, fr[c].Z} : CWrite(c, A)

SpecConc == InitWith(ConcCtorArgs) /\ [][NextConc]_vars

(***************************************************************************)
(* Properties of calls made one after the other (Spec)                     *)
(***************************************************************************)
IsLine(d) == ctor.kind = "Line" /\ ctor.disc = d
IsArea(r, t) == ctor.kind = "Area" /\ ctor.r_disc = r /\ ctor.theta_disc = t

NonDegenerate ==
    \/ ctor.kind = "Point"
    \/ ctor.kind = "Line" /\ ctor.disc >= 2
    \/ ctor.kind = "Area" /\ ctor.r_disc >= 2 /\ ctor.theta_disc >= 2

\* the number of turbines of the latest call
NTurb == IF last.op = "integrate" THEN last.U.shape[1] ELSE Len(last.X_t)

\* turbine i's samples U[i, ...] of the latest integrate call, flat
URow(i) == Block(last.U.data, i, Len(last.U.data) \div NTurb)

IsUniform(U, c) == \A n \in 1..Len(U.data) : U.data[n] = c

\* C1. Uniform-field exactness: on a Point, a Line with disc >= 2 or an Area
\* with r_disc >= 2 and theta_disc >= 2, and for any number of turbines, a
\* field U whose every entry is the same c integrates to exactly c for every
\* turbine.
C1_UniformExact ==
    (last.op = "integrate" /\ NonDegenerate) =>
        \A c \in UVals \cup AreaVals :
            IsUniform(last.U, c) =>
                /\ last.R1.shape = <<NTurb>>
                /\ \A i \in 1..NTurb : last.R1.data[i] = c

C1_Witness ==
    /\ last.op = "integrate"
    /\ IsArea(2, 2)
    /\ last.U = [shape |-> <<1, 2, 2>>, data |-> <<I(5), I(5), I(5), I(5)>>]
    /\ last.R1 = [shape |-> <<1>>, data |-> <<I(5)>>]

\* the shape grid_points is to return for N turbines
GridShape(N) ==
    CASE ctor.kind = "Point" -> <<N, 1>>
      [] ctor.kind = "Line"  -> <<N, ctor.disc>>
      [] ctor.kind = "Area"  -> <<N, ctor.theta_disc, ctor.r_disc>>

\* C2. Shape invariant: for any N >= 0 and any construction parameters,
\* grid_points returns X and Y of shape (N,) + the discretization shape
\* (Point (1,), Line (disc,), Area (theta_disc, r_disc)), each holding that
\* many elements; Z is the scalar 0 (Point, Line) or has the shape of X and
\* Y (Area).
C2_ShapeInvariant ==
    last.op = "grid_points" =>
        /\ last.X1.shape = GridShape(NTurb)
        /\ last.Y1.shape = GridShape(NTurb)
        /\ Len(last.X1.data) = Prod(GridShape(NTurb))
        /\ Len(last.Y1.data) = Prod(GridShape(NTurb))
        /\ IF ctor.kind = "Area"
           THEN /\ last.Z1.shape = last.X1.shape
                /\ Len(last.Z1.data) = Len(last.X1.data)
           ELSE last.Z1 = Val(<<>>, ScalarZero)

C2_Witness ==
    /\ last.op = "grid_points"
    /\ IsArea(3, 4)
    /\ NTurb = 0
    /\ last.X1.shape = <<0, 4, 3>>
    /\ last.Z1.shape = <<0, 4, 3>>

Shifted(A, d) ==
    [shape |-> A.shape, data |-> [n \in 1..Len(A.data) |-> Add(A.data[n], d)]]

\* turbine i's sample offsets from the turbine's own coordinate t
Offsets(A, i, t) ==
    LET bs == Len(A.data) \div NTurb
    IN  [n \in 1..bs |-> Sub(Block(A.data, i, bs)[n], t)]

\* C3. Translation consistency: grid_points on the layout translated by
\* (dx, dy) returns X + dx, Y + dy and the same Z; every turbine's sample
\* points are the same offsets added to its own (x_t, y_t), with no offset
\* in X.
C3_Translation ==
    last.op = "grid_points" =>
        /\ last.X2 = Shifted(last.X1, last.dx)
        /\ last.Y2 = Shifted(last.Y1, last.dy)
        /\ last.Z2 = last.Z1
        /\ \A i \in 1..NTurb :
              /\ \A n \in DOMAIN Offsets(last.X1, i, last.X_t[i]) :
                    Offsets(last.X1, i, last.X_t[i])[n] = Zero
              /\ Offsets(last.Y1, i, last.Y_t[i])
                    = Offsets(last.Y1, 1, last.Y_t[1])

C3_Witness ==
    /\ last.op = "grid_points"
    /\ IsArea(3, 4)
    /\ NTurb = 2
    /\ last.Y_t[1] # last.Y_t[2]
    /\ last.dx = I(3)
    /\ last.dy = I(2)
    /\ last.Y2 # last.Y1
    /\ last.Y2 = Shifted(last.Y1, I(2))

\* (1/(n-1)) * (u[1]/2 + u[2] + ... + u[n-1] + u[n]/2)
TrapezoidalMean(u) ==
    LET n == Len(u)
    IN  Div(SeqSum([j \in 1..n |->
                IF j = 1 \/ j = n THEN Div(u[j], I(2)) ELSE u[j]]),
            I(n - 1))

\* C4. Line.integrate is the trapezoidal rule over disc equally spaced
\* offsets: for disc >= 2 the result has shape (N,) and turbine i's value
\* is (1/(disc-1)) * (U[i,0]/2 + U[i,1] + ... + U[i,disc-2] + U[i,disc-1]/2).
\* For disc = 5 and one turbine at (100, 0), X = [[100]*5],
\* Y = [[-0.5, -0.25, 0, 0.25, 0.5]], and U = [[8, 9, 10, 9, 8]] gives 9.
C4_LineTrapezoid ==
    /\ (ctor.kind = "Line" /\ ctor.disc >= 2 /\ last.op = "integrate") =>
          /\ last.R1.shape = <<NTurb>>
          /\ \A i \in 1..NTurb : last.R1.data[i] = TrapezoidalMean(URow(i))
    /\ (IsLine(5) /\ last.op = "grid_points"
           /\ last.X_t = <<I(100)>> /\ last.Y_t = <<I(0)>>) =>
          /\ last.X1 = [shape |-> <<1, 5>>,
                        data |-> <<I(100), I(100), I(100), I(100), I(100)>>]
          /\ last.Y1 = [shape |-> <<1, 5>>,
                        data |-> <<Rat(-1, 2), Rat(-1, 4), I(0), Rat(1, 4),
                                   Rat(1, 2)>>]
    /\ (IsLine(5) /\ last.op = "integrate"
           /\ last.U = [shape |-> <<1, 5>>,
                        data |-> <<I(8), I(9), I(10), I(9), I(8)>>]) =>
          last.R1 = [shape |-> <<1>>, data |-> <<I(9)>>]

C4_Witness ==
    /\ IsLine(5)
    /\ last.op = "integrate"
    /\ last.U = [shape |-> <<1, 5>>, data |-> <<I(8), I(9), I(10), I(9), I(8)>>]
    /\ last.R1.data = <<I(9)>>

IsSymmetric(u) == \A j \in 1..Len(u) : u[j] = u[Len(u) + 1 - j]

\* C5 as stated. Line symmetry: for odd disc, samples of a turbine that are
\* symmetric about the midpoint of ys integrate to the midpoint sample.
\* (Stated for disc >= 3: with disc = 1 there is no interval to integrate
\* over, which is the degenerate discretization of C8.)
C5_SymmetricIsMidpoint ==
    (ctor.kind = "Line" /\ ctor.disc % 2 = 1 /\ ctor.disc >= 3
        /\ last.op = "integrate") =>
        \A i \in 1..NTurb :
            IsSymmetric(URow(i)) =>
                last.R1.data[i] = URow(i)[(ctor.disc + 1) \div 2]

\* C5 as amended. For odd disc >= 3 and samples of turbine i symmetric about
\* the midpoint m = (disc-1)/2, integrate(U)[i] is the trapezoidal mean of
\* one half of the profile, (U[i,0] + 2*(U[i,1] + ... + U[i,m-1]) + U[i,m])
\* / (disc-1); it is the midpoint sample only when that mean equals it.
C5_SymmetricHalfMean ==
    (ctor.kind = "Line" /\ ctor.disc % 2 = 1 /\ ctor.disc >= 3
        /\ last.op = "integrate") =>
        \A i \in 1..NTurb :
            IsSymmetric(URow(i)) =>
                LET m == (ctor.disc + 1) \div 2
                    u == URow(i)
                IN  last.R1.data[i] =
                        Div(SeqSum([j \in 1..m |->
                                IF j = 1 \/ j = m THEN u[j]
                                ELSE Mul(I(2), u[j])]),
                            I(ctor.disc - 1))

C5_Witness ==
    /\ IsLine(5)
    /\ last.op = "integrate"
    /\ NTurb = 1
    /\ URow(1) = <<I(8), I(9), I(10), I(9), I(8)>>
    /\ last.R1.data[1] = I(9)
    /\ last.R1.data[1] # URow(1)[3]

\* C6. Immutable discretization and call-history independence: after any
\* sequence of grid_points and integrate calls the instance's fields and
\* the arrays they hold are as the constructor left them; a call returns
\* what it returns on a newly constructed instance, whatever calls came
\* before it (integrate needs no grid_points before it), and a call
\* repeated with the same arguments returns the same result.
C6_Immutable ==
    /\ self = Construct(ctor).self
    /\ heap = Construct(ctor).heap
    /\ last.op = "integrate" =>
          /\ last.R2 = last.R1
          /\ \A s \in {CallIntegrate(Construct(ctor).heap, Construct(ctor).self,
                                     last.U.shape, last.U.data)} :
                last.R1 = Val(s.heap, s.f.R)
    /\ last.op = "grid_points" =>
          \A s \in {CallGridPoints(Construct(ctor).heap, Construct(ctor).self,
                                   last.X_t, last.Y_t)} :
              /\ last.X1 = Val(s.heap, s.f.X)
              /\ last.Y1 = Val(s.heap, s.f.Y)
              /\ last.Z1 = Val(s.heap, s.f.Z)
    /\ (last.op = "grid_points" /\ last.dx = Zero /\ last.dy = Zero) =>
          /\ last.X2 = last.X1
          /\ last.Y2 = last.Y1
          /\ last.Z2 = last.Z1

\* an Area's second grid_points call with the same two turbines
C6_Witness ==
    /\ IsArea(3, 4)
    /\ last.op = "grid_points"
    /\ NTurb = 2
    /\ last.Y_t = <<I(1), I(0)>>
    /\ last.dx = Zero
    /\ last.dy = Zero
    /\ last.Y2 = last.Y1
    /\ Len(heap) = 3
    /\ heap[1] = linspace(Zero, Mul(I(2), Pi), 4)

\* C8 as stated. DegenerateDiscretization: constructing a Line with
\* disc < 2, or an Area with r_disc < 2 or theta_disc < 2, fails, so no
\* such instance exists for integrate to be called on.
C8_DegenerateRejected ==
    /\ (ctor.kind = "Line" /\ ctor.disc < 2) => ~Live
    /\ (ctor.kind = "Area" /\ (ctor.r_disc < 2 \/ ctor.theta_disc < 2)) => ~Live

\* the trapezoidal weight of sample j of n equally spaced samples step h apart
TrapWeight(j, n, h) == IF j = 1 \/ j = n THEN Div(h, I(2)) ELSE h

\* C10. Area quadrature weights: for r_disc >= 2 and theta_disc >= 2,
\* integrate(U)[i] = (4/pi) * sum over k, j of wt[k] * wr[j] * rs[j] * U[i,k,j]
\* with wr, wt the trapezoidal weights of the radius grid (step
\* 0.5/(r_disc-1)) and of the angle grid (step 2*pi/(theta_disc-1)); the
\* centre samples (j = 0) have weight zero and are left out of the sum, and
\* the angles 0 and 2*pi carry half an interior angle's weight each.
C10_AreaWeights ==
    (ctor.kind = "Area" /\ ctor.r_disc >= 2 /\ ctor.theta_disc >= 2
        /\ last.op = "integrate") =>
        LET R == ctor.r_disc
            T == ctor.theta_disc
            hr == Div(Rat(1, 2), I(R - 1))
            ht == Div(Mul(I(2), Pi), I(T - 1))
            rs(j) == Mul(I(j - 1), hr)
            term(u, k, j) ==
                Mul(Mul(TrapWeight(k, T, ht), TrapWeight(j, R, hr)),
                    Mul(rs(j), u[(k - 1) * R + j]))
        IN  /\ last.R1.shape = <<NTurb>>
            /\ \A i \in 1..NTurb :
                  last.R1.data[i] =
                      Mul(Div(I(4), Pi),
                          SeqSum([k \in 1..T |->
                              SeqSum([j \in 1..(R - 1) |->
                                  term(URow(i), k, j + 1)])]))

\* both centre samples are 5 and every other sample 0: the result is 0
C10_Witness ==
    /\ IsArea(3, 2)
    /\ last.op = "integrate"
    /\ NTurb = 1
    /\ URow(1) = <<I(5), I(0), I(0), I(5), I(0), I(0)>>
    /\ last.R1.data = <<Zero>>

(***************************************************************************)
(* Properties of concurrent callers (SpecConc)                             *)
(***************************************************************************)
\* caller c's call made alone on the instance as constructed
AloneGridPoints(c) ==
    CallGridPoints(Construct(ctor).heap, Construct(ctor).self, cl[c].xs, cl[c].ys)

AloneIntegrate(c) ==
    CallIntegrate(Construct(ctor).heap, Construct(ctor).self,
                  cl[c].U.shape, cl[c].U.data)

\* what caller c's finished call returned is what the call returns alone
ReturnsAsAlone(c) ==
    IF fr[c].op = "grid_points"
    THEN \A s \in {AloneGridPoints(c)} :
             /\ Val(heap, fr[c].X) = Val(s.heap, s.f.X)
             /\ Val(heap, fr[c].Y) = Val(s.heap, s.f.Y)
             /\ Val(heap, fr[c].Z) = Val(s.heap, s.f.Z)
    ELSE \A s \in {AloneIntegrate(c)} :
             Val(heap, fr[c].R) = Val(s.heap, s.f.R)

\* C7. Concurrent read-only safety: with callers running grid_points and
\* integrate on the same instance, interleaved at the loop iterations, each
\* call returns exactly what it returns when run alone (read before the
\* caller itself writes to its result).
C7_ConcurrentAsAlone ==
    \A c \in Callers : (fr[c].pc = "done" /\ ~cl[c].wrote) => ReturnsAsAlone(c)

\* both callers in grid_points on a Line with two turbines each at
\* different lateral positions, each call having run loop iterations while
\* the other was inside its loop, both returned
C7_Witness ==
    /\ IsLine(2)
    /\ \A c \in Callers :
          fr[c].pc = "done" /\ fr[c].op = "grid_points" /\ cl[c].mixed
    /\ cl[1].ys = <<I(0), I(1)>>
    /\ cl[2].ys = <<I(1), I(0)>>
    /\ Val(heap, fr[1].Y) # Val(heap, fr[2].Y)
    /\ ReturnsAsAlone(1)
    /\ ReturnsAsAlone(2)

\* C9 as stated. Result ownership: the arrays grid_points returns are newly
\* allocated, so that after a caller's write to one of them the instance's
\* arrays are as constructed, every caller's X_t and Y_t hold what it
\* passed, and every other grid_points result is as it was returned.
C9_ResultOwnership ==
    /\ SubSeq(heap, 1, Len(Construct(ctor).heap)) = Construct(ctor).heap
    /\ \A c \in Callers :
          (fr[c].pc = "done" /\ fr[c].op = "grid_points") =>
              /\ heap[fr[c].X_t.buf] = cl[c].xs
              /\ heap[fr[c].Y_t.buf] = cl[c].ys
              /\ ~cl[c].wrote => ReturnsAsAlone(c)

=============================================================================
